---- MODULE Spec2Model ----
(***************************************************************************)
(* The MCP client harness scripts of help-me-test/cli.                     *)
(*                                                                         *)
(* Each script spawns a child process (the CLI in "mcp" mode), writes      *)
(* line-delimited JSON-RPC requests to its stdin and reads lines from its  *)
(* stdout.  The scripts modelled are                                       *)
(*   functionality : test_mcp_tools_comparison.py  (MCPTester, 2 sessions) *)
(*   simple        : test_mcp_simple.py            (Popen, blocking reads) *)
(*   direct        : test_mcp_direct_comparison.py (communicate, 10 s)     *)
(*   debug         : debug_mcp.py                  (communicate, 5 s)      *)
(*   built         : test_built_version.py         (library sessions)      *)
(* The child is the environment: it may answer, answer late, write blank   *)
(* or undecodable lines, stay silent, exit on its own, or survive SIGTERM. *)
(***************************************************************************)
EXTENDS Integers, Sequences, FiniteSets, TLC

\* Bound on the number of junk lines (blank, undecodable, or JSON that is no
\* JSON-RPC response) one child writes to its stdout besides its answers.
MaxJunk == 1

\* Bound on the number of lines a child has written that the harness has not read.
MaxBuf == 1

\* Session 1 is the "Node.js" tester, session 2 the "Built" tester.
Sessions == {1, 2}

Scripts == {"functionality", "simple", "direct", "debug", "built", "version"}

\* The request identifiers of the three request steps (id 1, 2, 3).
Steps == {1, 2, 3}

NoId == 0

Method(k) ==
  CASE k = 1 -> "initialize"
    [] k = 2 -> "tools/list"
    [] k = 3 -> "tools/call"

(***************************************************************************)
(* Lines on the child's stdout and the Python values they decode to.       *)
(***************************************************************************)
Line(kind, id) == [kind |-> kind, id |-> id]

BlankLine == Line("blank", NoId)       \* "\n"
GarbageLine == Line("garbage", NoId)   \* not JSON
NullLine == Line("null", NoId)         \* null
EmptyObjLine == Line("empty", NoId)    \* {}
StringLine == Line("string", NoId)     \* "ok": a JSON value that is not an object
EofLine == Line("eof", NoId)           \* readline() at end of file: b''
ResultLine(id) == Line("result", id)   \* {"jsonrpc":"2.0","id":id,"result":...}
ErrorLine(id) == Line("rpcerror", id)  \* {"jsonrpc":"2.0","id":id,"error":{...}}

JunkLines == {BlankLine, GarbageLine, EmptyObjLine, NullLine, StringLine}

Value(kind, id) == [kind |-> kind, id |-> id]

Unset == Value("unset", NoId)
TimeoutValue == Value("Timeout", NoId)               \* {"error": "Timeout"}
EmptyResponseValue == Value("Empty response", NoId)  \* {"error": "Empty response"}
DecodeErrorValue == Value("JSON decode error", NoId) \* {"error": "JSON decode error: ..."}

\* send_request, lines 55-65: strip, then json.loads of a non-empty string.
ParseResponse(line) ==
  CASE line.kind \in {"blank", "eof"} -> EmptyResponseValue
    [] line.kind = "garbage" -> DecodeErrorValue
    [] OTHER -> Value(line.kind, line.id)

\* Python truth value of a value returned by send_request (None and {} are falsy).
Truthy(v) == v.kind \notin {"unset", "null", "empty"}

VARIABLES
  script,      \* which script is being run
  pc,          \* position of the script's top-level coroutine / function
  cur,         \* the session (tester) the script is working on
  step,        \* the request step of the current session
  launch,      \* per session: "pending", "ok" or "failed" (outcome of the spawn)
  child,       \* per session: the child process
  stdout,      \* per session: lines written by the child and not yet read
  unanswered,  \* per session: ids the child received and has not answered (FIFO)
  junk,        \* per session: number of junk lines the running child has written
  sent,        \* per session: the messages written to the child's stdin, in order
  resp,        \* current session: what each request step handed back (the locals
               \* init_response, tools_response, tool_call_response)
  results,     \* per session: the entry of the results dict
  timedOut,    \* per session: a wait for the child has timed out
  signals,     \* per session: signals the harness sent to the child
  report,      \* per step: the printed comparison
  summary,     \* the final summary block has been printed
  exc,         \* the exception that left the top-level function, or "none"
  ret,         \* what test_mcp_server_directly returned, or "none"
  package_json, \* version_utils: the package.json next to the script
  version,     \* version_utils: what get_version returned
  user_agent,  \* version_utils: what get_user_agent returned
  client_info  \* version_utils: what get_mcp_client_info returned

versionVars == <<package_json, version, user_agent, client_info>>

vars == <<script, pc, cur, step, launch, child, stdout, unanswered, junk, sent,
          resp, results, timedOut, signals, report, summary, exc, ret,
          versionVars>>

\* package.json as get_version finds it: no file, a file that is not JSON, a
\* JSON value that is not an object ([] or null), or an object with or without
\* a "version" member.
NoFile == [kind |-> "missing", version |-> "absent"]

PackageFiles ==
  {NoFile} \cup
  {[kind |-> k, version |-> "absent"] : k \in {"invalid", "array", "null", "object"}} \cup
  {[kind |-> "object", version |-> v] : v \in {"1.0.0", "1.2.3", "2.0.0"}}

NotCalled == "not called"

NoUserAgent == [prefix |-> "none", version |-> NotCalled]

NoClientInfo == [name |-> "none", version |-> NotCalled]

NoChild == [st |-> "none", reaped |-> FALSE]

NoResp == [k \in Steps |-> Unset]

\* An entry of the results dict: absent (set = FALSE), or "success", "error" and,
\* with steps = TRUE, the keys "init", "tools" and "tool_call" (vals).
NoResult == [set |-> FALSE, success |-> FALSE, error |-> "none", steps |-> FALSE,
             vals |-> NoResp]

NoReport == [verdict |-> "none", node |-> FALSE, built |-> FALSE]

Init ==
  /\ script \in Scripts
  /\ pc = "start"
  /\ cur = 1
  /\ step = 1
  /\ launch = [s \in Sessions |-> "pending"]
  /\ child = [s \in Sessions |-> NoChild]
  /\ stdout = [s \in Sessions |-> <<>>]
  /\ unanswered = [s \in Sessions |-> <<>>]
  /\ junk = [s \in Sessions |-> 0]
  /\ sent = [s \in Sessions |-> <<>>]
  /\ resp = NoResp
  /\ results = [s \in Sessions |-> NoResult]
  /\ timedOut = [s \in Sessions |-> FALSE]
  /\ signals = [s \in Sessions |-> {}]
  /\ report = [k \in Steps |-> NoReport]
  /\ summary = FALSE
  /\ exc = "none"
  /\ ret = "none"
  /\ package_json \in IF script = "version" THEN PackageFiles ELSE {NoFile}
  /\ version = NotCalled
  /\ user_agent = NoUserAgent
  /\ client_info = NoClientInfo

(***************************************************************************)
(* The child process (the environment of the harness).                     *)
(***************************************************************************)
Running(s) == child[s].st \in {"running", "blocked"}

\* The child is alive and not blocked in a write to its stderr pipe.
Responsive(s) == child[s].st = "running"

Exited(s) == child[s].st = "exited"

\* The junk lines the children of a script are taken to write.
Junk == IF script = "simple" THEN JunkLines ELSE JunkLines \ {NullLine, StringLine}

\* The lines a child may write next: a junk line while its bound allows, and an
\* answer (result or JSON-RPC error object) to the oldest request it has received
\* and not answered.
Emittable(s) ==
  (IF junk[s] < MaxJunk THEN Junk ELSE {}) \cup
    (IF unanswered[s] = <<>> THEN {}
     ELSE {ResultLine(Head(unanswered[s])), ErrorLine(Head(unanswered[s]))})

ChildEmit(s) ==
  /\ Responsive(s)
  /\ Len(stdout[s]) < MaxBuf
  /\ \E l \in Emittable(s) :
       /\ stdout' = [stdout EXCEPT ![s] = Append(@, l)]
       /\ unanswered' = [unanswered EXCEPT ![s] = IF l \in JunkLines THEN @ ELSE Tail(@)]
       /\ junk' = [junk EXCEPT ![s] = IF l \in JunkLines THEN @ + 1 ELSE @]
  /\ UNCHANGED <<versionVars, script, pc, cur, step, launch, child, sent, resp, results,
                 timedOut, signals, report, summary, exc, ret>>

\* The child exits on its own (or crashes): its end of the pipes is closed and
\* what it had received is gone with it.
ChildExit(s) ==
  /\ Responsive(s)
  /\ child' = [child EXCEPT ![s].st = "exited"]
  /\ unanswered' = [unanswered EXCEPT ![s] = <<>>]
  /\ junk' = [junk EXCEPT ![s] = 0]
  /\ UNCHANGED <<versionVars, script, pc, cur, step, launch, stdout, sent,
                 resp, results, timedOut, signals, report, summary, exc, ret>>

\* Every script opens the child's stderr as a pipe.  A child that writes
\* diagnostics (--verbose) fills the pipe when nobody reads it and then blocks
\* in its write; only communicate() reads the pipe.
ChildBlock(s) ==
  /\ Responsive(s)
  /\ pc # "communicate"
  /\ child' = [child EXCEPT ![s].st = "blocked"]
  /\ UNCHANGED <<versionVars, script, pc, cur, step, launch, stdout, unanswered, junk, sent,
                 resp, results, timedOut, signals, report, summary, exc, ret>>

\* communicate() reads stderr to its end: a child blocked on the pipe goes on.
communicate_stderr ==
  /\ script \in {"direct", "debug"}
  /\ pc = "communicate"
  /\ child[cur].st = "blocked"
  /\ child' = [child EXCEPT ![cur].st = "running"]
  /\ UNCHANGED <<versionVars, script, pc, cur, step, launch, stdout, unanswered, junk, sent,
                 resp, results, timedOut, signals, report, summary, exc, ret>>

\* The scripts that drive the child through asyncio subprocess transports.
Asyncio == script \in {"functionality", "direct"}

\* asyncio's event loop runs while the coroutine is suspended in an await: it
\* notices the exit of a child and finishes the transport (its _proc becomes None).
ReapChild(s) ==
  /\ Asyncio
  /\ pc \in {"read", "wait", "communicate"}
  /\ Exited(s)
  /\ ~child[s].reaped
  /\ child' = [child EXCEPT ![s].reaped = TRUE]
  /\ UNCHANGED <<versionVars, script, pc, cur, step, launch, stdout, unanswered, junk, sent,
                 resp, results, timedOut, signals, report, summary, exc, ret>>

(***************************************************************************)
(* test_mcp_tools_comparison.py: MCPTester and test_mcp_functionality.     *)
(***************************************************************************)
\* A harness that reuses the identifier of the first request.
Request_SameId(k) == [method |-> Method(k), id |-> 1]

Request(k) == [method |-> Method(k), id |-> k]

\* results[tester.name] of the except branch, lines 142-147.
Failure(e) == [set |-> TRUE, success |-> FALSE, error |-> e, steps |-> FALSE,
               vals |-> NoResp]

\* results[tester.name] of lines 135-140.
Success(r) == [set |-> TRUE, success |-> TRUE, error |-> "none", steps |-> TRUE,
               vals |-> r]

\* MCPTester.start inside the try of test_mcp_functionality: the spawn either
\* raises (caught at line 142) or sets self.process.
start ==
  /\ script = "functionality"
  /\ pc = "start"
  /\ \E ok \in BOOLEAN :
       IF ok
       THEN /\ launch' = [launch EXCEPT ![cur] = "ok"]
            /\ child' = [child EXCEPT ![cur].st = "running"]
            /\ pc' = "write"
            /\ UNCHANGED results
       ELSE /\ launch' = [launch EXCEPT ![cur] = "failed"]
            /\ results' = [results EXCEPT ![cur] = Failure("FileNotFoundError")]
            /\ pc' = "finally"
            /\ UNCHANGED child
  /\ UNCHANGED <<versionVars, script, cur, step, stdout, unanswered, junk, sent, resp,
                 timedOut, signals, report, summary, exc, ret>>

\* A send_request that ignores the failed write and goes on to read.
send_request_write_Ignored ==
  /\ script = "functionality"
  /\ pc = "write"
  /\ IF Running(cur)
     THEN /\ sent' = [sent EXCEPT ![cur] = Append(@, Request(step))]
          /\ unanswered' = [unanswered EXCEPT ![cur] = Append(@, step)]
     ELSE UNCHANGED <<sent, unanswered>>
  /\ pc' = "read"
  /\ UNCHANGED <<versionVars, script, cur, step, launch, child, stdout, junk, resp, results,
                 timedOut, signals, report, summary, exc, ret>>

\* send_request, lines 41-48: write the request and drain.  Writing to the pipe
\* of a child that has exited raises (ConnectionResetError), caught at line 142.
send_request_write ==
  /\ script = "functionality"
  /\ pc = "write"
  /\ IF Running(cur)
     THEN /\ sent' = [sent EXCEPT ![cur] = Append(@, Request(step))]
          /\ unanswered' = [unanswered EXCEPT ![cur] = Append(@, step)]
          /\ pc' = "read"
          /\ UNCHANGED results
     ELSE /\ results' = [results EXCEPT ![cur] = Failure("ConnectionResetError")]
          /\ pc' = "finally"
          /\ UNCHANGED <<sent, unanswered>>
  /\ UNCHANGED <<versionVars, script, cur, step, launch, child, stdout, junk, resp,
                 timedOut, signals, report, summary, exc, ret>>

\* What wait_for(readline(), 5.0) and the decoding hand back (lines 50-65): the
\* next buffered line if there is one, b'' at end of file, a timeout otherwise.
ReadOutcome(s) ==
  IF stdout[s] # <<>> THEN ParseResponse(Head(stdout[s]))
  ELSE IF Exited(s) THEN ParseResponse(EofLine)
  ELSE TimeoutValue

\* A harness that raises on a JSON-RPC error object instead of returning it.
NextPcAfterRead_RaiseOnError(k, v) ==
  IF v.kind = "rpcerror" THEN "crashed" ELSE IF k < 3 THEN "write" ELSE "finally"

\* After a request step returns, test_mcp_functionality goes on to the next
\* request (lines 99-133) whatever the step handed back.
NextPcAfterRead(k, v) == IF k < 3 THEN "write" ELSE "finally"

send_request_read ==
  /\ script = "functionality"
  /\ pc = "read"
  /\ LET v == ReadOutcome(cur) IN
       /\ resp' = [resp EXCEPT ![step] = v]
       /\ timedOut' = [timedOut EXCEPT ![cur] = @ \/ v = TimeoutValue]
       /\ pc' = NextPcAfterRead(step, v)
       /\ step' = IF NextPcAfterRead(step, v) = "write" THEN step + 1 ELSE step
       /\ results' = IF step = 3 THEN [results EXCEPT ![cur] = Success(resp')] ELSE results
  /\ stdout' = [stdout EXCEPT ![cur] = IF @ = <<>> THEN @ ELSE Tail(@)]
  /\ UNCHANGED <<versionVars, script, cur, launch, child, unanswered, junk, sent,
                 signals, report, summary, exc, ret>>

\* A stop() without the "if self.process" guard.
StopGuard_Unguarded(s) == TRUE

\* MCPTester.stop, line 69: "if self.process".
StopGuard(s) == launch[s] = "ok"

\* Process.terminate() raises ProcessLookupError once the transport of an exited
\* child has finished (base_subprocess._check_proc).
TerminateRaises(s) == child[s].reaped

\* The for loop over [node_tester, built_tester], then the comparison.
NextTester ==
  IF cur = 1 THEN /\ cur' = 2 /\ pc' = "start" /\ step' = 1 /\ resp' = NoResp
  ELSE /\ pc' = "compare" /\ UNCHANGED <<cur, step, resp>>

\* MCPTester.stop in the finally block (line 149), up to the await of wait().
stop ==
  /\ script = "functionality"
  /\ pc = "finally"
  /\ IF ~StopGuard(cur)
     THEN /\ NextTester
          /\ UNCHANGED <<child, unanswered, junk, signals, exc>>
     ELSE IF TerminateRaises(cur)
     THEN /\ exc' = "ProcessLookupError"
          /\ pc' = "crashed"
          /\ UNCHANGED <<cur, step, resp, child, unanswered, junk, signals>>
     ELSE /\ signals' = [signals EXCEPT ![cur] = @ \cup {"TERM"}]
          /\ pc' = "wait"
          \* a running child dies of SIGTERM unless it handles or ignores it
          /\ \E dies \in BOOLEAN :
               IF dies /\ Running(cur)
               THEN /\ child' = [child EXCEPT ![cur].st = "exited"]
                    /\ unanswered' = [unanswered EXCEPT ![cur] = <<>>]
                    /\ junk' = [junk EXCEPT ![cur] = 0]
               ELSE UNCHANGED <<child, unanswered, junk>>
          /\ UNCHANGED <<cur, step, resp, exc>>
  /\ UNCHANGED <<versionVars, script, launch, stdout, sent, results, timedOut, report, summary, ret>>

\* MCPTester.stop, line 71: await self.process.wait() returns once the child has
\* exited and the loop has finished its transport.
stop_wait ==
  /\ script = "functionality"
  /\ pc = "wait"
  /\ Exited(cur)
  /\ child' = [child EXCEPT ![cur].reaped = TRUE]
  \* the pipes are closed with the transport: what was not read is never read
  /\ stdout' = [stdout EXCEPT ![cur] = <<>>]
  /\ NextTester
  /\ UNCHANGED <<versionVars, script, launch, unanswered, junk, sent, results,
                 timedOut, signals, report, summary, exc, ret>>

\* results.get(name, {}).get(step), lines 157-158.
StepResult(s, k) == IF results[s].steps THEN results[s].vals[k] ELSE Unset

\* Lines 160-172: the printed comparison of one step.
CompareStep(n, b) ==
  IF Truthy(n) /\ Truthy(b)
  THEN IF n = b
       THEN [verdict |-> "identical", node |-> FALSE, built |-> FALSE]
       ELSE [verdict |-> "differ", node |-> TRUE, built |-> TRUE]
  ELSE [verdict |-> "missing", node |-> Truthy(n), built |-> Truthy(b)]

\* Lines 151-187: the detailed comparison and the final summary.
compare ==
  /\ script = "functionality"
  /\ pc = "compare"
  /\ report' = [k \in Steps |-> CompareStep(StepResult(1, k), StepResult(2, k))]
  /\ summary' = TRUE
  /\ pc' = "done"
  /\ UNCHANGED <<versionVars, script, cur, step, launch, child, stdout, unanswered, junk, sent,
                 resp, results, timedOut, signals, exc, ret>>

(***************************************************************************)
(* test_mcp_simple.py: test_mcp_server_directly (subprocess.Popen).        *)
(***************************************************************************)
Notification == [method |-> "notifications/initialized", id |-> NoId]

\* Lines 15-21: Popen is called before the try block.
simple_start ==
  /\ script = "simple"
  /\ pc = "start"
  /\ \E ok \in BOOLEAN :
       IF ok
       THEN /\ launch' = [launch EXCEPT ![cur] = "ok"]
            /\ child' = [child EXCEPT ![cur].st = "running"]
            /\ pc' = "write"
            /\ UNCHANGED exc
       ELSE /\ launch' = [launch EXCEPT ![cur] = "failed"]
            /\ exc' = "FileNotFoundError"
            /\ pc' = "crashed"
            /\ UNCHANGED child
  /\ UNCHANGED <<versionVars, script, cur, step, stdout, unanswered, junk, sent, resp, results,
                 timedOut, signals, report, summary, ret>>

\* Lines 40-41, 65-66, 84-85: write a request and flush.  A write to the pipe of
\* a child that has exited raises BrokenPipeError, caught at line 104.
simple_write ==
  /\ script = "simple"
  /\ pc = "write"
  /\ IF Running(cur)
     THEN /\ sent' = [sent EXCEPT ![cur] = Append(@, Request(step))]
          /\ unanswered' = [unanswered EXCEPT ![cur] = Append(@, step)]
          /\ pc' = "read"
          /\ UNCHANGED ret
     ELSE /\ ret' = "False"
          /\ pc' = "finally"
          /\ UNCHANGED <<sent, unanswered>>
  /\ UNCHANGED <<versionVars, script, cur, step, launch, child, stdout, junk, resp, results,
                 timedOut, signals, report, summary, exc>>

\* Lines 47-55: the initialized notification, written after the first read.
simple_notify ==
  /\ script = "simple"
  /\ pc = "notify"
  /\ IF Running(cur)
     THEN /\ sent' = [sent EXCEPT ![cur] = Append(@, Notification)]
          /\ pc' = "write"
          /\ UNCHANGED ret
     ELSE /\ ret' = "False"
          /\ pc' = "finally"
          /\ UNCHANGED sent
  /\ UNCHANGED <<versionVars, script, cur, step, launch, child, stdout, unanswered, junk, resp,
                 results, timedOut, signals, report, summary, exc>>

\* Lines 92-102: the check of the third line read.  json.loads fails on a blank
\* or undecodable line; "'error' in None" raises TypeError (caught at line 104);
\* "'error' in" a string or a dict without that key is False.
CheckToolCall(line) ==
  IF line.kind \in {"blank", "eof", "garbage", "null", "rpcerror"} THEN "False" ELSE "True"

\* Lines 44, 69, 88: process.stdout.readline() blocks until the child has written
\* a line or closed its stdout; there is no timeout.
simple_read ==
  /\ script = "simple"
  /\ pc = "read"
  /\ stdout[cur] # <<>> \/ Exited(cur)
  /\ LET line == IF stdout[cur] # <<>> THEN Head(stdout[cur]) ELSE EofLine IN
       /\ resp' = [resp EXCEPT ![step] = Value(line.kind, line.id)]
       /\ ret' = IF step = 3 THEN CheckToolCall(line) ELSE ret
  /\ stdout' = [stdout EXCEPT ![cur] = IF @ = <<>> THEN @ ELSE Tail(@)]
  /\ pc' = CASE step = 1 -> "notify" [] step = 2 -> "write" [] step = 3 -> "finally"
  /\ step' = IF step < 3 THEN step + 1 ELSE step
  /\ UNCHANGED <<versionVars, script, cur, launch, child, unanswered, junk, sent, results,
                 timedOut, signals, report, summary, exc>>

\* Line 108: Popen.terminate() polls first and sends nothing to a child that has
\* exited; a running child dies of SIGTERM unless it handles or ignores it.
simple_terminate ==
  /\ script = "simple"
  /\ pc = "finally"
  /\ pc' = "wait"
  /\ IF Running(cur)
     THEN /\ signals' = [signals EXCEPT ![cur] = @ \cup {"TERM"}]
          /\ \E dies \in BOOLEAN :
               IF dies
               THEN /\ child' = [child EXCEPT ![cur].st = "exited"]
                    /\ unanswered' = [unanswered EXCEPT ![cur] = <<>>]
                    /\ junk' = [junk EXCEPT ![cur] = 0]
               ELSE UNCHANGED <<child, unanswered, junk>>
     ELSE /\ child' = [child EXCEPT ![cur].reaped = TRUE]
          /\ UNCHANGED <<signals, unanswered, junk>>
  /\ UNCHANGED <<versionVars, script, cur, step, launch, stdout, sent, resp, results,
                 timedOut, report, summary, exc, ret>>

\* A finally block that returns without waiting for the child.
simple_wait_Skipped ==
  /\ script = "simple"
  /\ pc = "wait"
  /\ pc' = "done"
  /\ UNCHANGED <<versionVars, script, cur, step, launch, child, stdout, unanswered, junk, sent,
                 resp, results, timedOut, signals, report, summary, exc, ret>>

\* Line 109: process.wait() returns once the child has exited.
simple_wait ==
  /\ script = "simple"
  /\ pc = "wait"
  /\ Exited(cur)
  /\ child' = [child EXCEPT ![cur].reaped = TRUE]
  /\ pc' = "done"
  /\ UNCHANGED <<versionVars, script, cur, step, launch, stdout, unanswered, junk, sent, resp,
                 results, timedOut, signals, report, summary, exc, ret>>

(***************************************************************************)
(* test_mcp_direct_comparison.py: test_mcp_server_direct and main.         *)
(***************************************************************************)
\* The returned dict of lines 81-86: success is "returncode == 0".
DirectResult(rc) == [set |-> TRUE, success |-> rc = 0, error |-> "none",
                     steps |-> FALSE, vals |-> NoResp]

\* main, lines 113-114: the Node.js run, then the Built run, then the summary.
DirectNext ==
  IF cur = 1 THEN /\ cur' = 2 /\ pc' = "start"
  ELSE /\ pc' = "summary" /\ UNCHANGED cur

\* Lines 27-34: the spawn is inside the try; a failure returns the error dict
\* of line 90.
direct_start ==
  /\ script = "direct"
  /\ pc = "start"
  /\ \E ok \in BOOLEAN :
       IF ok
       THEN /\ launch' = [launch EXCEPT ![cur] = "ok"]
            /\ child' = [child EXCEPT ![cur].st = "running"]
            /\ pc' = "write"
            /\ UNCHANGED <<results, cur>>
       ELSE /\ launch' = [launch EXCEPT ![cur] = "failed"]
            /\ results' = [results EXCEPT ![cur] = Failure("FileNotFoundError")]
            /\ DirectNext
            /\ UNCHANGED child
  /\ UNCHANGED <<versionVars, script, step, stdout, unanswered, junk, sent, resp,
                 timedOut, signals, report, summary, exc, ret>>

\* Lines 57-61: write the initialize request and drain.
direct_write ==
  /\ script = "direct"
  /\ pc = "write"
  /\ IF Running(cur)
     THEN /\ sent' = [sent EXCEPT ![cur] = Append(@, Request(1))]
          /\ unanswered' = [unanswered EXCEPT ![cur] = Append(@, 1)]
          /\ pc' = "communicate"
          /\ UNCHANGED <<results, cur>>
     ELSE /\ results' = [results EXCEPT ![cur] = Failure("ConnectionResetError")]
          /\ DirectNext
          /\ UNCHANGED <<sent, unanswered>>
  /\ UNCHANGED <<versionVars, script, step, launch, child, stdout, junk, resp,
                 timedOut, signals, report, summary, exc, ret>>

\* Lines 64-86: wait_for(process.communicate(), 10.0).  communicate() returns
\* once the child has closed its output and exited; otherwise the wait times
\* out, the child is killed (SIGKILL) and the error dict is returned.
direct_communicate ==
  /\ script = "direct"
  /\ pc = "communicate"
  /\ IF Exited(cur)
     THEN /\ \E rc \in {0, 1} : results' = [results EXCEPT ![cur] = DirectResult(rc)]
          /\ child' = [child EXCEPT ![cur].reaped = TRUE]
          /\ stdout' = [stdout EXCEPT ![cur] = <<>>]
          /\ UNCHANGED <<timedOut, signals, unanswered, junk>>
     ELSE /\ timedOut' = [timedOut EXCEPT ![cur] = TRUE]
          /\ signals' = [signals EXCEPT ![cur] = @ \cup {"KILL"}]
          /\ child' = [child EXCEPT ![cur].st = "exited"]
          /\ unanswered' = [unanswered EXCEPT ![cur] = <<>>]
          /\ junk' = [junk EXCEPT ![cur] = 0]
          /\ results' = [results EXCEPT ![cur] = Failure("Timeout")]
          /\ UNCHANGED stdout
  /\ DirectNext
  /\ UNCHANGED <<versionVars, script, step, launch, sent, resp, report, summary, exc, ret>>

\* main, lines 116-134: the comparison summary.
direct_summary ==
  /\ script = "direct"
  /\ pc = "summary"
  /\ summary' = TRUE
  /\ pc' = "done"
  /\ UNCHANGED <<versionVars, script, cur, step, launch, child, stdout, unanswered, junk, sent,
                 resp, results, timedOut, signals, report, exc, ret>>

(***************************************************************************)
(* debug_mcp.py: test_mcp_stdio (subprocess.Popen, communicate).           *)
(***************************************************************************)
\* Lines 21-28: Popen is called before the try block.
debug_start ==
  /\ script = "debug"
  /\ pc = "start"
  /\ \E ok \in BOOLEAN :
       IF ok
       THEN /\ launch' = [launch EXCEPT ![cur] = "ok"]
            /\ child' = [child EXCEPT ![cur].st = "running"]
            /\ pc' = "write"
            /\ UNCHANGED exc
       ELSE /\ launch' = [launch EXCEPT ![cur] = "failed"]
            /\ exc' = "FileNotFoundError"
            /\ pc' = "crashed"
            /\ UNCHANGED child
  /\ UNCHANGED <<versionVars, script, cur, step, stdout, unanswered, junk, sent, resp, results,
                 timedOut, signals, report, summary, ret>>

\* Lines 52-53 and 68-70: write and flush; on an exception print it and kill
\* (Popen.kill() polls first and sends nothing to a child that has exited).
debug_write ==
  /\ script = "debug"
  /\ pc = "write"
  /\ IF Running(cur)
     THEN /\ sent' = [sent EXCEPT ![cur] = Append(@, Request(1))]
          /\ unanswered' = [unanswered EXCEPT ![cur] = Append(@, 1)]
          /\ pc' = "communicate"
          /\ UNCHANGED child
     ELSE /\ child' = [child EXCEPT ![cur].reaped = TRUE]
          /\ pc' = "finally"
          /\ UNCHANGED <<sent, unanswered>>
  /\ UNCHANGED <<versionVars, script, cur, step, launch, stdout, junk, resp, results,
                 timedOut, signals, report, summary, exc, ret>>

\* Lines 56-66: communicate(timeout=5) returns once the child has exited; on
\* TimeoutExpired the child is killed and communicate() collects it.
debug_communicate ==
  /\ script = "debug"
  /\ pc = "communicate"
  /\ IF Exited(cur)
     THEN /\ child' = [child EXCEPT ![cur].reaped = TRUE]
          /\ UNCHANGED <<timedOut, signals, unanswered, junk>>
     ELSE /\ timedOut' = [timedOut EXCEPT ![cur] = TRUE]
          /\ signals' = [signals EXCEPT ![cur] = @ \cup {"KILL"}]
          /\ child' = [child EXCEPT ![cur] = [st |-> "exited", reaped |-> TRUE]]
          /\ unanswered' = [unanswered EXCEPT ![cur] = <<>>]
          /\ junk' = [junk EXCEPT ![cur] = 0]
  /\ stdout' = [stdout EXCEPT ![cur] = <<>>]
  /\ pc' = "finally"
  /\ UNCHANGED <<versionVars, script, cur, step, launch, sent, resp, results, report, summary,
                 exc, ret>>

\* Lines 72-75: terminate and wait only if poll() finds the child running.
debug_finally ==
  /\ script = "debug"
  /\ pc = "finally"
  /\ IF Running(cur)
     THEN /\ signals' = [signals EXCEPT ![cur] = @ \cup {"TERM"}]
          /\ pc' = "wait"
          /\ UNCHANGED child
     ELSE /\ child' = [child EXCEPT ![cur].reaped = TRUE]
          /\ pc' = "done"
          /\ UNCHANGED signals
  /\ UNCHANGED <<versionVars, script, cur, step, launch, stdout, unanswered, junk, sent, resp,
                 results, timedOut, report, summary, exc, ret>>

(***************************************************************************)
(* test_built_version.py: test_node_version, test_built_version and main.  *)
(***************************************************************************)
\* Lines 36-44 and 60-68: the agent run either completes (True) or raises an
\* exception that is caught (False).
BuiltResult(ok) == [set |-> TRUE, success |-> ok, error |-> "none",
                    steps |-> FALSE, vals |-> NoResp]

\* main, lines 72-75: node_success, then built_success.
built_test ==
  /\ script = "built"
  /\ pc = "start"
  /\ \E ok \in BOOLEAN : results' = [results EXCEPT ![cur] = BuiltResult(ok)]
  /\ IF cur = 1 THEN cur' = 2 /\ UNCHANGED pc ELSE pc' = "summary" /\ UNCHANGED cur
  /\ UNCHANGED <<versionVars, script, step, launch, child, stdout, unanswered, junk, sent, resp,
                 timedOut, signals, report, summary, exc, ret>>

\* main, lines 77-88: the summary.
built_summary ==
  /\ script = "built"
  /\ pc = "summary"
  /\ summary' = TRUE
  /\ pc' = "done"
  /\ UNCHANGED <<versionVars, script, cur, step, launch, child, stdout, unanswered, junk, sent,
                 resp, results, timedOut, signals, report, exc, ret>>

(***************************************************************************)
(* tests/version_utils.py: get_version, get_user_agent, get_mcp_client_info.*)
(***************************************************************************)
DefaultVersion == "1.0.0"

Returned(v) == [raised |-> "none", value |-> v]

Raised(e) == [raised |-> e, value |-> NotCalled]

\* Lines 23-29: open and json.load inside the try; FileNotFoundError and
\* JSONDecodeError are caught.  package_data.get(...) on a list or on None raises
\* AttributeError, which the except clause does not name.
GetVersion(file) ==
  CASE file.kind = "missing" -> Returned(DefaultVersion)
    [] file.kind = "invalid" -> Returned(DefaultVersion)
    [] file.kind \in {"array", "null"} -> Raised("AttributeError")
    [] file.kind = "object" ->
         Returned(IF file.version = "absent" THEN DefaultVersion ELSE file.version)

\* Line 57: f"HelpMeTest-CLI/{get_version()}".
GetUserAgent(file) ==
  LET r == GetVersion(file) IN
    IF r.raised # "none" THEN r
    ELSE Returned([prefix |-> "HelpMeTest-CLI/", version |-> r.value])

\* Line 67: {"name": "helpmetest-mcp-client", "version": get_version()}.
GetMcpClientInfo(file) ==
  LET r == GetVersion(file) IN
    IF r.raised # "none" THEN r
    ELSE Returned([name |-> "helpmetest-mcp-client", version |-> r.value])

\* A caller of get_version: an exception it raises leaves the caller.
get_version ==
  /\ script = "version"
  /\ pc = "start"
  /\ LET r == GetVersion(package_json) IN
       IF r.raised = "none"
       THEN /\ version' = r.value
            /\ pc' = "user_agent"
            /\ UNCHANGED exc
       ELSE /\ exc' = r.raised
            /\ pc' = "crashed"
            /\ UNCHANGED version
  /\ UNCHANGED <<script, cur, step, launch, child, stdout, unanswered, junk, sent,
                 resp, results, timedOut, signals, report, summary, ret,
                 package_json, user_agent, client_info>>

get_user_agent ==
  /\ script = "version"
  /\ pc = "user_agent"
  /\ LET r == GetUserAgent(package_json) IN
       IF r.raised = "none"
       THEN /\ user_agent' = r.value
            /\ pc' = "client_info"
            /\ UNCHANGED exc
       ELSE /\ exc' = r.raised
            /\ pc' = "crashed"
            /\ UNCHANGED user_agent
  /\ UNCHANGED <<script, cur, step, launch, child, stdout, unanswered, junk, sent,
                 resp, results, timedOut, signals, report, summary, ret,
                 package_json, version, client_info>>

get_mcp_client_info ==
  /\ script = "version"
  /\ pc = "client_info"
  /\ LET r == GetMcpClientInfo(package_json) IN
       IF r.raised = "none"
       THEN /\ client_info' = r.value
            /\ pc' = "done"
            /\ UNCHANGED exc
       ELSE /\ exc' = r.raised
            /\ pc' = "crashed"
            /\ UNCHANGED client_info
  /\ UNCHANGED <<script, cur, step, launch, child, stdout, unanswered, junk, sent,
                 resp, results, timedOut, signals, report, summary, ret,
                 package_json, version, user_agent>>

Harness ==
  \/ start
  \/ send_request_write
  \/ send_request_read
  \/ stop
  \/ stop_wait
  \/ compare
  \/ simple_start
  \/ simple_write
  \/ simple_notify
  \/ simple_read
  \/ simple_terminate
  \/ simple_wait
  \/ direct_start
  \/ direct_write
  \/ direct_communicate
  \/ direct_summary
  \/ debug_start
  \/ debug_write
  \/ debug_communicate
  \/ debug_finally
  \/ communicate_stderr
  \/ built_test
  \/ built_summary
  \/ get_version
  \/ get_user_agent
  \/ get_mcp_client_info

Environment ==
  \E s \in Sessions :
    \/ ChildEmit(s)
    \/ ChildExit(s)
    \/ ChildBlock(s)
    \/ ReapChild(s)

Next ==
  \/ Harness
  \/ Environment

Spec == Init /\ [][Next]_vars

(***************************************************************************)
(* Properties.                                                             *)
(***************************************************************************)
IsResponse(v) == v.kind \in {"result", "rpcerror"}

\* A step that did not hand back a decoded line of the child: a timeout, an
\* empty line or end of file, or an undecodable line.
StepFailed(v) ==
  v.kind \in {"Timeout", "Empty response", "JSON decode error", "blank", "eof", "garbage"}

\* The run of session s (its loop iteration or function call) has returned.
RunReturned(s) == cur > s \/ pc \in {"compare", "summary", "done", "crashed"}

ComparisonScript == script \in {"functionality", "direct", "built"}

\* C1: the outcome handed back for a request that was sent is either a response
\* carrying the identifier of that request or the timeout error.
C1_SameIdOrTimeout ==
  \A k \in Steps :
    resp[k] # Unset => \/ IsResponse(resp[k]) /\ resp[k].id = k
                       \/ resp[k] = TimeoutValue

\* The messages of a session in protocol order: initialize, then the
\* notifications/initialized notification, then tools/list, then tools/call.
ProtocolOrder(seq) ==
  \A i \in DOMAIN seq :
    seq[i].method = CASE i = 1 -> "initialize"
                      [] i = 2 -> "notifications/initialized"
                      [] i = 3 -> "tools/list"
                      [] OTHER -> "tools/call"

\* C2: every session writes its messages in the fixed protocol order; no
\* tools/list or tools/call is written before notifications/initialized.
C2_FixedProtocolOrder == \A s \in Sessions : ProtocolOrder(sent[s])

\* C3: in the comparison scripts no exception leaves the top-level function and
\* the final summary is printed whenever the script ends.
C3_SummaryAlwaysPrinted ==
  ComparisonScript => /\ exc = "none"
                      /\ pc \in {"done", "crashed"} => summary

\* C4: a session that has timed out has its child terminated and returns: the
\* harness is never left waiting on the child of a timed-out session, and no
\* such child is running once the run of the session has returned.
C4_TimedOutSessionTerminated ==
  \A s \in Sessions :
    timedOut[s] => IF RunReturned(s) THEN ~Running(s) ELSE ENABLED Harness

\* C5: once a step of a session has failed, the session writes no further
\* request to its child.
C5_NoRequestAfterFailure ==
  \A k \in Steps :
    StepFailed(resp[k]) => \A i \in DOMAIN sent[cur] : sent[cur][i].id <= k

\* The requests written to the child of the current session whose response has
\* not been read.
Outstanding ==
  {sent[cur][i].id : i \in DOMAIN sent[cur]} \
    ({NoId} \cup {resp[k].id : k \in {j \in Steps : IsResponse(resp[j])}})

\* C6: a session has at most one outstanding request at every moment.
C6_OneOutstandingRequest == Cardinality(Outstanding) <= 1

\* C7: for each step, if both sessions succeeded and returned identical JSON the
\* step is reported identical, and if the two responses differ it is reported
\* as differing with both payloads printed.
C7_ComparisonReported ==
  (script = "functionality" /\ pc = "done" /\ results[1].success /\ results[2].success)
    => \A k \in Steps :
         LET n == results[1].vals[k]
             b == results[2].vals[k]
         IN IF n = b
            THEN report[k].verdict = "identical"
            ELSE report[k] = [verdict |-> "differ", node |-> TRUE, built |-> TRUE]

\* C8: stop() always completes: while it waits for the child, the child has
\* exited or is made to exit, so the harness can go on.
C8_StopCompletes == pc = "wait" => ENABLED Harness

\* C9: stop() on a session whose child was never started or has exited raises
\* no error and leaves the session stopped.
C9_StopIdempotent ==
  [][(script = "functionality" /\ pc = "finally" /\ ~Running(cur))
       => (exc' = "none" /\ ~Running(cur)')]_vars

\* The failed launch of session s is surfaced: an error-tagged result, or the
\* exception of the spawn itself where the script does not catch it.
LaunchDiagnosed(s) ==
  IF script \in {"simple", "debug"}
  THEN exc = "FileNotFoundError" /\ pc = "crashed"
  ELSE results[s] = Failure("FileNotFoundError")

\* C10: a session whose launch failed has had no request written, its failure
\* is surfaced, and stop() did nothing to it: no signal, no child, no error.
C10_LaunchFailureNoTraffic ==
  \A s \in Sessions :
    launch[s] = "failed" => /\ sent[s] = <<>>
                            /\ LaunchDiagnosed(s)
                            /\ signals[s] = {}
                            /\ child[s] = NoChild
                            /\ (s = cur /\ script = "functionality") => pc # "crashed"

\* C10 witness: the Node.js tester failed to launch, its stop() has run and the
\* script has gone on to the Built tester.
C10_Witness ==
  /\ script = "functionality"
  /\ launch[1] = "failed"
  /\ cur = 2
  /\ launch[2] = "ok"

\* C11: the Built session is run whatever the Node.js session does: while the
\* Node.js tester is the current one, the script has neither died of an
\* exception nor is it left blocked, so it goes on to the Built tester.
C11_BuiltRunIndependent ==
  (script = "functionality" /\ cur = 1) => (pc # "crashed" /\ ENABLED Harness)

\* A decoded line that is valid JSON but lacks the JSON-RPC fields (version
\* tag, identifier, result or error).
LacksRpcFields(v) == v.kind \in {"empty", "null", "string"}

\* C12: a line that is not valid JSON, or is valid JSON without the required
\* JSON-RPC fields, is never handed back as a successful response: send_request
\* does not return it as the response, and test_mcp_server_directly does not
\* return True on it.
C12_MalformedLineRejected ==
  /\ script = "functionality" => \A k \in Steps : ~LacksRpcFields(resp[k])
  /\ (script = "simple" /\ ret = "True") => IsResponse(resp[3])

\* C13: every receive step is bounded: a harness waiting for the next line of
\* the child can always go on, with the line or with a timeout, so it is never
\* left waiting on a child that writes nothing.
C13_ReceiveBounded == pc = "read" => ENABLED Harness

\* The stop step of the current session has been reached (and may itself have
\* failed with the ProcessLookupError of terminate()).
StopReached ==
  \/ pc \in {"finally", "wait", "compare", "done"}
  \/ pc = "crashed" /\ exc = "ProcessLookupError"

\* C14: when the child answers tools/call with a JSON-RPC error object, the
\* harness surfaces it (the error response is the recorded tool_call result of
\* a completed run, or test_mcp_server_directly returns False) and does not
\* raise: the session reaches its stop step.
C14_RemoteErrorSurfaced ==
  resp[3].kind = "rpcerror"
    => /\ StopReached
       /\ script = "functionality" => results[cur] = Success(resp)
       /\ script = "simple" => ret = "False"

\* C14 witness: tools/list was answered, tools/call got the error object, and
\* the tester is at its stop step.
C14_Witness ==
  /\ script = "functionality"
  /\ resp[2] = Value("result", 2)
  /\ resp[3] = Value("rpcerror", 3)
  /\ pc = "finally"

\* Number of request steps of the current session that have waited for a line.
StepsRead == Cardinality({k \in Steps : resp[k] # Unset})

\* C15: send_request on a child whose stdin is no longer writable fails with the
\* stream's connection error; it never waits for a response to a request that
\* was not delivered, and the session's run ends with an error-tagged result at
\* its stop step.
C15_WriteFailureEndsRun ==
  script = "functionality"
    => /\ pc = "read" => Len(sent[cur]) = step
       /\ results[cur].error = "ConnectionResetError"
            => /\ ~results[cur].success
               /\ StopReached
               /\ StepsRead = Len(sent[cur])

\* C15 witness: the child exited after the first request was answered and the
\* next write failed.
C15_Witness ==
  /\ script = "functionality"
  /\ Len(sent[cur]) = 1
  /\ resp[1] # Unset
  /\ results[cur] = Failure("ConnectionResetError")
  /\ pc = "finally"

\* C16: the child's stderr is read by the harness, so a child writing
\* diagnostics is never blocked on its stderr pipe while the harness waits for
\* a response line on stdout.
C16_StderrDrained == pc = "read" => child[cur].st # "blocked"

\* C17: within a session every request that expects a response carries an
\* identifier no earlier message of the session carried, so no two requests in
\* flight share one; the initialized notification carries no identifier.
C17_FreshIdentifiers ==
  \A s \in Sessions :
    /\ \A j \in 1..Len(sent[s]) :
         IF sent[s][j].method = "notifications/initialized"
         THEN sent[s][j].id = NoId
         ELSE /\ sent[s][j].id # NoId
              /\ \A i \in 1..(j - 1) : sent[s][i].id # sent[s][j].id
    /\ \A j \in 1..Len(unanswered[s]) :
         \A i \in 1..(j - 1) : unanswered[s][i] # unanswered[s][j]

\* C17 witness: all three requests were sent and two of them are in flight at
\* the same time (the wait for the earlier one timed out).
C17_Witness ==
  /\ script = "functionality"
  /\ Len(sent[cur]) = 3
  /\ Len(unanswered[cur]) = 2

\* C18: in test_mcp_functionality a session's result has success = True only if
\* each of its three steps returned a parsed response; a timed-out, empty or
\* undecodable step makes it False.
C18_SuccessNeedsAllSteps ==
  script = "functionality"
    => \A s \in Sessions :
         (results[s].set /\ results[s].success)
           => \A k \in Steps : ~StepFailed(results[s].vals[k])

\* C19: when test_mcp_stdio or test_mcp_server_directly returns after it has
\* spawned the child, on whatever path, the child has exited and has been
\* waited for.
C19_ChildReapedOnReturn ==
  (script \in {"debug", "simple"} /\ launch[cur] = "ok" /\ pc \in {"done", "crashed"})
    => (Exited(cur) /\ child[cur].reaped)

\* C19 witness: test_mcp_server_directly returned early on an error response
\* after terminating the child that was still running.
C19_Witness ==
  /\ script = "simple"
  /\ pc = "done"
  /\ resp[3].kind = "rpcerror"
  /\ "TERM" \in signals[cur]
  /\ child[cur].reaped

\* The decoded line is a JSON object with no 'error' member.
ObjectWithoutError(v) == v.kind \in {"result", "empty"}

\* C20: test_mcp_server_directly returns True if and only if the third line read
\* parses as a JSON object with no 'error' member; an error object answering
\* initialize or tools/list does not change the result and does not stop the
\* later requests.
C20_ResultFromThirdLine ==
  script = "simple"
    => /\ pc \in {"finally", "wait", "done"}
            => (ret = "True" <=> ObjectWithoutError(resp[3]))
       /\ \A k \in {1, 2} : resp[k].kind = "rpcerror" => step > k

\* What the claim says get_version returns for a package.json.
ExpectedVersion(file) ==
  IF file.kind = "object" /\ file.version # "absent" THEN file.version ELSE "1.0.0"

\* C21: get_version never raises; it returns the "version" member of package.json
\* when the file is a JSON object that has one and "1.0.0" in every other case
\* (no file, invalid JSON, JSON that is not an object, object without
\* "version"); get_user_agent and get_mcp_client_info carry the version
\* get_version returns.
C21_GetVersionTotal ==
  script = "version"
    => /\ exc = "none"
       /\ pc # "start" => version = ExpectedVersion(package_json)
       /\ pc \in {"client_info", "done"}
            => user_agent = [prefix |-> "HelpMeTest-CLI/", version |-> version]
       /\ pc = "done"
            => client_info = [name |-> "helpmetest-mcp-client", version |-> version]

====
